---- MODULE Spec2Model ----
(***************************************************************************)
(* Model of examples/dump/imports.cpp (HadesMem PE dumper): DumpImports,   *)
(* DumpImportThunk and DumpBoundImports.                                   *)
(*                                                                         *)
(* The inspected image `pe` is the input.  The output stream (std::wcout   *)
(* lines and WarnForCurrentFile calls) is recorded in `out` as a sequence  *)
(* of events.  One action models one iteration of a range-for loop over    *)
(* a descriptor list, the loops nested in its body included.               *)
(***************************************************************************)
EXTENDS Integers, Sequences, FiniteSets, TLC

VARIABLES
  pe,               \* the image under inspection (the input, never written)
  fn,               \* the function that runs: "DumpImports" or "DumpBoundImports"
  pc,               \* "begin", "loop", "done", or "threw" (left by an exception)
  pos,              \* how many descriptors the list iterator has yielded
  num_import_dirs,  \* the local of DumpImports
  out,              \* everything written so far
  last              \* what the latest step wrote (the tail of out)

vars == <<pe, fn, pc, pos, num_import_dirs, out, last>>

(***************************************************************************)
(* Program constants                                                       *)
(***************************************************************************)
\* if (num_import_dirs++ == 1000)
MaxImportDirs == 1000
\* if (count++ == 1000)
MaxImportThunks == 1000
\* static_cast<DWORD>(-1), 0xFFFFFFFF; a DWORD above 2^31 - 1 is written as
\* the 32-bit two's complement number with the same bits
AllOnes == -1
\* static_cast<int>(hadesmem::PeDataDir::BoundImport)
BoundImportIndex == 11

(***************************************************************************)
(* Bounds of the model                                                     *)
(***************************************************************************)
\* thunk tables of the small images hold 0..SmallLen thunks
SmallLen == 2
\* long tables hold up to Over records more than the ceiling
Over == 2
\* bound import tables hold 0..MaxBound descriptors, each 0..MaxBound refs
MaxBound == 2

(***************************************************************************)
(* The image: RVAs, thunk tables, import descriptors                       *)
(***************************************************************************)
\* RVA 0 is the null RVA, 1 and 2 lie inside the image, 3 lies outside it.
RVAs == 0 .. 3
MappedRvas == {1, 2}

\* What the raw value of a thunk is when it is not read as a bound address:
\* an ordinal (high bit set), the RVA of a readable hint/name record, or the
\* RVA of a hint/name record that cannot be read.
ThunkKinds == {"ordinal", "name", "badname"}

\* A thunk table of n thunks before its zero sentinel, holding the pattern p
\* repeated.
Table(n, p) == [i \in 1 .. n |-> p[((i - 1) % Len(p)) + 1]]

KindPatterns == {<<"ordinal">>, <<"name">>, <<"badname", "name">>}

SmallTables == {Table(n, p) : n \in 0 .. SmallLen, p \in KindPatterns}

LongLens == (MaxImportThunks - 1) .. (MaxImportThunks + Over)

LongTables == {Table(n, <<"ordinal">>) : n \in LongLens}

\* hadesmem::RvaToVa(process, pe_file, rva) != nullptr
RvaToVa(image, rva) == rva \in MappedRvas

\* hadesmem::ImportThunkList(process, pe_file, rva): the thunks from rva up to
\* the zero sentinel; nothing when the RVA cannot be mapped.
ImportThunkList(image, rva) ==
  IF RvaToVa(image, rva) THEN image.tab[rva] ELSE <<>>

TlsDir ==
  [tls_aoi |-> TRUE, OriginalFirstThunk |-> 0, TimeDateStamp |-> 0,
   ForwarderChain |-> 0, name_ok |-> TRUE, FirstThunk |-> 0]

PlainDirs ==
  [tls_aoi : {FALSE}, OriginalFirstThunk : RVAs, TimeDateStamp : {0, 1, AllOnes},
   ForwarderChain : {0, 1, AllOnes}, name_ok : BOOLEAN, FirstThunk : RVAs]

Dirs == PlainDirs \cup {TlsDir}

PeFileTypes == {"Image", "Data"}

(***************************************************************************)
(* Output events                                                           *)
(***************************************************************************)
Event(ev, dir, type, what, rva) ==
  [ev |-> ev, dir |-> dir, type |-> type, what |-> what, rva |-> rva]

\* WarnForCurrentFile(type), with the text written before it
Warn(dir, type, what) == Event("warn", dir, type, what, 0)

\* One thunk written by DumpImportThunk; walk is "first" for the loop over
\* ilt_thunks and "second" for the loop over iat_thunks, rva the table the
\* thunk was read from.
Thunk(dir, walk, what, rva) == Event("thunk", dir, walk, what, rva)

(***************************************************************************)
(* DumpImportThunk                                                         *)
(***************************************************************************)
DumpImportThunk(thunk, is_bound, dir, walk, rva) ==
  IF is_bound
    THEN <<Thunk(dir, walk, "Function", rva)>>
    ELSE IF thunk = "ordinal"
      THEN <<Thunk(dir, walk, "Ordinal", rva)>>
      ELSE IF thunk = "name"
        THEN <<Thunk(dir, walk, "Name", rva)>>
        ELSE <<Thunk(dir, walk, "Invalid", rva),
               Warn(dir, "Unsupported", "thunk name")>>

(***************************************************************************)
(* DumpImports                                                             *)
(***************************************************************************)
HasValidNonEmptyBoundImportDescList(image) == image.bound_dirs # <<>>

\* The state of a loop over thunks: the events written, the local count and
\* whether the loop was left by break.
LoopState(o, count, broke) == [out |-> o, count |-> count, broke |-> broke]

\* IltBody handing is_ilt_bound to DumpImportThunk.
IltBody_Bound(thunk, st, is_ilt_bound, dir, rva) ==
  IF st.count = MaxImportThunks
    THEN LoopState(Append(st.out, Warn(dir, "Unsupported", "1000 thunks")),
                   st.count + 1, TRUE)
    ELSE LoopState(st.out
                     \o DumpImportThunk(thunk, is_ilt_bound, dir, "first", rva),
                   st.count + 1, FALSE)

\* IltBody with the ceiling one thunk late.
IltBody_Late(thunk, st, is_ilt_bound, dir, rva) ==
  IF st.count = MaxImportThunks + 1
    THEN LoopState(Append(st.out, Warn(dir, "Unsupported", "1000 thunks")),
                   st.count + 1, TRUE)
    ELSE LoopState(st.out \o DumpImportThunk(thunk, FALSE, dir, "first", rva),
                   st.count + 1, FALSE)

\* The body of  for (auto const& thunk : ilt_thunks)  for one thunk;
\* is_ilt_bound is computed by the caller and discarded:  (void)is_ilt_bound;
IltBody(thunk, st, is_ilt_bound, dir, rva) ==
  IF st.count = MaxImportThunks
    THEN LoopState(Append(st.out, Warn(dir, "Unsupported", "1000 thunks")),
                   st.count + 1, TRUE)
    ELSE LoopState(st.out \o DumpImportThunk(thunk, FALSE, dir, "first", rva),
                   st.count + 1, FALSE)

\* for (auto const& thunk : ilt_thunks)  over the thunks lo .. hi, entered in
\* state st.  The thunks are taken in order, a break ends the loop; the range
\* is halved only to keep the evaluation shallow.
RECURSIVE IltLoop(_, _, _, _, _, _, _)
IltLoop(thunks, lo, hi, st, is_ilt_bound, dir, rva) ==
  IF lo > hi \/ st.broke
    THEN st
    ELSE IF lo = hi
      THEN IltBody(thunks[lo], st, is_ilt_bound, dir, rva)
      ELSE LET mid == (lo + hi) \div 2
           IN  IltLoop(thunks, mid + 1, hi,
                       IltLoop(thunks, lo, mid, st, is_ilt_bound, dir, rva),
                       is_ilt_bound, dir, rva)

\* The body of  for (auto const& thunk : iat_thunks)  for one thunk.  count
\* is decremented only when ilt_valid holds (&& short-circuits); it is not
\* read again after the break, so its wrap-around there is left out.
IatBody(thunk, st, ilt_valid, bound, dir, rva) ==
  IF ilt_valid /\ st.count = 0
    THEN LoopState(Append(st.out,
                          Warn(dir, "Suspicious", "IAT/ILT size mismatch")),
                   st.count, TRUE)
    ELSE LoopState(st.out \o DumpImportThunk(thunk, bound, dir, "second", rva),
                   IF ilt_valid THEN st.count - 1 ELSE st.count, FALSE)

\* for (auto const& thunk : iat_thunks)  over the thunks lo .. hi.
RECURSIVE IatLoop(_, _, _, _, _, _, _, _)
IatLoop(thunks, lo, hi, st, ilt_valid, bound, dir, rva) ==
  IF lo > hi \/ st.broke
    THEN st
    ELSE IF lo = hi
      THEN IatBody(thunks[lo], st, ilt_valid, bound, dir, rva)
      ELSE LET mid == (lo + hi) \div 2
           IN  IatLoop(thunks, mid + 1, hi,
                       IatLoop(thunks, lo, mid, st, ilt_valid, bound, dir, rva),
                       ilt_valid, bound, dir, rva)

\* UseIlt without the comparison with the IAT.
UseIlt_NonZero(ilt, iat) == ilt # 0

\* bool const use_ilt = !!ilt && ilt != iat;
UseIlt(ilt, iat) == ilt # 0 /\ ilt # iat

\* The locals of one iteration of the descriptor loop.
Locals(image, d) ==
  LET iat == d.FirstThunk
      ilt == d.OriginalFirstThunk
      use_ilt == UseIlt(ilt, iat)
      ilt_rva == IF use_ilt THEN ilt ELSE iat
      is_bound == d.TimeDateStamp # 0
      is_memory_bound == image.type = "Image" /\ ~use_ilt
  IN  [iat |-> iat,
       iat_valid |-> RvaToVa(image, iat),
       ilt |-> ilt,
       use_ilt |-> use_ilt,
       ilt_rva |-> ilt_rva,
       ilt_thunks |-> ImportThunkList(image, ilt_rva),
       ilt_empty |-> ImportThunkList(image, ilt_rva) = <<>>,
       ilt_valid |-> RvaToVa(image, ilt),
       iat_thunks |-> ImportThunkList(image, iat),
       is_bound |-> is_bound,
       is_ilt_bound |-> (is_bound /\ ~use_ilt) \/ is_memory_bound,
       is_iat_bound |-> is_bound \/ image.type = "Image"]

\* NewStyleBound warning when there is no bound import descriptor list.
NewStyleBound_NoList(image, d, ilt_valid, dir) ==
  IF d.TimeDateStamp = AllOnes
     /\ ~ilt_valid /\ ~HasValidNonEmptyBoundImportDescList(image)
    THEN <<Warn(dir, "Unsupported", "new style bound imports")>>
    ELSE <<>>

\* Lines 165-185: the time stamp of a new style bound import.
NewStyleBound(image, d, ilt_valid, dir) ==
  IF d.TimeDateStamp = AllOnes
     /\ ~ilt_valid /\ HasValidNonEmptyBoundImportDescList(image)
    THEN <<Warn(dir, "Unsupported", "new style bound imports")>>
    ELSE <<>>

\* ForwarderChain without the test for 0xFFFFFFFF.
ForwarderChain_NonZero(d, dir) ==
  IF d.ForwarderChain # 0
    THEN <<Warn(dir, "Unsupported", "forwarder chain")>>
    ELSE <<>>

\* Lines 186-194: the forwarder chain.
ForwarderChain(d, dir) ==
  IF d.ForwarderChain # 0 /\ d.ForwarderChain # AllOnes
    THEN <<Warn(dir, "Unsupported", "forwarder chain")>>
    ELSE <<>>

\* Lines 195-214: the name, dir.GetName() throwing when it cannot be read.
DirName(d, dir) ==
  IF d.name_ok
    THEN <<Event("name", dir, "", "", 0)>>
    ELSE <<Warn(dir, "Suspicious", "name")>>

\* Lines 222-235: the heading of the first thunk loop.
IltHeader(l, dir) ==
  IF l.ilt_empty
    THEN <<Warn(dir, "Suspicious",
                IF l.ilt_valid THEN "ILT empty" ELSE "ILT invalid")>>
    ELSE <<Event("header", dir, IF l.use_ilt THEN "ILT" ELSE "IAT", "first",
                 l.ilt_rva)>>

\* IatWalk taking the IAT as bound without asking whether the ILT is valid.
IatWalk_NoValid(l, count, dir) ==
  IF l.use_ilt /\ l.iat # 0
    THEN (IF l.iat_thunks # <<>>
            THEN <<Event("header", dir, "IAT", "second", l.iat)>>
            ELSE <<>>)
         \o IatLoop(l.iat_thunks, 1, Len(l.iat_thunks),
                    LoopState(<<>>, count, FALSE), l.ilt_valid,
                    l.is_iat_bound \/ ~l.ilt_empty,
                    dir, l.iat).out
    ELSE <<>>

\* Lines 280-312: the second thunk loop, entered with the count the first left.
IatWalk(l, count, dir) ==
  IF l.use_ilt /\ l.iat # 0
    THEN (IF l.iat_thunks # <<>>
            THEN <<Event("header", dir, "IAT", "second", l.iat)>>
            ELSE <<>>)
         \o IatLoop(l.iat_thunks, 1, Len(l.iat_thunks),
                    LoopState(<<>>, count, FALSE), l.ilt_valid,
                    (l.is_iat_bound /\ l.ilt_valid) \/ ~l.ilt_empty,
                    dir, l.iat).out
    ELSE <<>>

\* Everything one iteration writes once the descriptor is neither the TLS
\* terminator, nor skipped, nor over the ceiling (lines 163-312).
DumpDir(image, d, dir) ==
  LET l == Locals(image, d)
      walk == IltLoop(l.ilt_thunks, 1, Len(l.ilt_thunks),
                      LoopState(<<>>, 0, FALSE), l.is_ilt_bound, dir, l.ilt_rva)
  IN  <<Event("fields", dir, "", "", 0)>>
        \o NewStyleBound(image, d, l.ilt_valid, dir)
        \o ForwarderChain(d, dir)
        \o DirName(d, dir)
        \o IltHeader(l, dir)
        \o walk.out
        \o IatWalk(l, walk.count, dir)

\* Lines 101-113: the list is built and its emptiness reported.
DumpImportsBegin ==
  /\ fn = "DumpImports" /\ pc = "begin"
  /\ last' = (IF pe.import_dirs # <<>>
                THEN <<Event("header", 0, "Import Dirs", "", 0)>>
                ELSE <<Warn(0, "Suspicious", "import directory")>>)
  /\ out' = out \o last'
  /\ pc' = "loop"
  /\ UNCHANGED <<pe, fn, pos, num_import_dirs>>

\* The descriptor the iterator stands on.
CurDir == pe.import_dirs[pos + 1]

\* DirTlsAoi with the break turned into a continue.
DirTlsAoi_Continue ==
  /\ fn = "DumpImports" /\ pc = "loop" /\ pos < Len(pe.import_dirs)
  /\ CurDir.tls_aoi
  /\ last' = <<Warn(pos + 1, "Suspicious", "TLS AOI")>>
  /\ out' = out \o last'
  /\ pos' = pos + 1
  /\ UNCHANGED <<pe, fn, pc, num_import_dirs>>

\* An iteration that ends at  if (dir.IsTlsAoiTerminated()) ... break;
DirTlsAoi ==
  /\ fn = "DumpImports" /\ pc = "loop" /\ pos < Len(pe.import_dirs)
  /\ CurDir.tls_aoi
  /\ last' = <<Warn(pos + 1, "Suspicious", "TLS AOI")>>
  /\ out' = out \o last'
  /\ pc' = "done"
  /\ pos' = pos + 1
  /\ UNCHANGED <<pe, fn, num_import_dirs>>

\* DirSkipped with the continue turned into a break.
DirSkipped_Break ==
  /\ fn = "DumpImports" /\ pc = "loop" /\ pos < Len(pe.import_dirs)
  /\ ~CurDir.tls_aoi
  /\ Locals(pe, CurDir).iat_thunks = <<>>
  /\ last' = <<Warn(pos + 1, "Suspicious",
                    IF Locals(pe, CurDir).iat_valid
                      THEN "IAT empty" ELSE "IAT invalid")>>
  /\ out' = out \o last'
  /\ pos' = pos + 1
  /\ pc' = "done"
  /\ UNCHANGED <<pe, fn, num_import_dirs>>

\* An iteration that ends at the  continue  of the empty IAT.
DirSkipped ==
  /\ fn = "DumpImports" /\ pc = "loop" /\ pos < Len(pe.import_dirs)
  /\ ~CurDir.tls_aoi
  /\ Locals(pe, CurDir).iat_thunks = <<>>
  /\ last' = <<Warn(pos + 1, "Suspicious",
                    IF Locals(pe, CurDir).iat_valid
                      THEN "IAT empty" ELSE "IAT invalid")>>
  /\ out' = out \o last'
  /\ pos' = pos + 1
  /\ UNCHANGED <<pe, fn, pc, num_import_dirs>>

\* An iteration that ends at  if (num_import_dirs++ == 1000) ... break;
DirCeiling ==
  /\ fn = "DumpImports" /\ pc = "loop" /\ pos < Len(pe.import_dirs)
  /\ ~CurDir.tls_aoi
  /\ Locals(pe, CurDir).iat_thunks # <<>>
  /\ num_import_dirs = MaxImportDirs
  /\ num_import_dirs' = num_import_dirs + 1
  /\ last' = <<Warn(pos + 1, "Unsupported", "1000 import dirs")>>
  /\ out' = out \o last'
  /\ pc' = "done"
  /\ pos' = pos + 1
  /\ UNCHANGED <<pe, fn>>

\* An iteration that runs to the end of the loop body.
DirDumped ==
  /\ fn = "DumpImports" /\ pc = "loop" /\ pos < Len(pe.import_dirs)
  /\ ~CurDir.tls_aoi
  /\ Locals(pe, CurDir).iat_thunks # <<>>
  /\ num_import_dirs # MaxImportDirs
  /\ num_import_dirs' = num_import_dirs + 1
  /\ last' = DumpDir(pe, CurDir, pos + 1)
  /\ out' = out \o last'
  /\ pos' = pos + 1
  /\ UNCHANGED <<pe, fn, pc>>

\* The iterator reaches the end of the list and DumpImports returns.
DirsEnd ==
  /\ fn = "DumpImports" /\ pc = "loop" /\ pos = Len(pe.import_dirs)
  /\ pc' = "done"
  /\ last' = <<>>
  /\ UNCHANGED <<pe, fn, pos, num_import_dirs, out>>

(***************************************************************************)
(* DumpBoundImports                                                        *)
(***************************************************************************)
HasBoundImportDir(image) ==
  image.num_rva_and_sizes > BoundImportIndex /\ image.bound_va # 0

\* Lines 320-323: no bound import directory, nothing is written.
BoundAbsent ==
  /\ fn = "DumpBoundImports" /\ pc = "begin"
  /\ ~HasBoundImportDir(pe)
  /\ pc' = "done"
  /\ last' = <<>>
  /\ UNCHANGED <<pe, fn, pos, num_import_dirs, out>>

\* Lines 329-339: the list is built and its emptiness reported.
BoundBegin ==
  /\ fn = "DumpBoundImports" /\ pc = "begin"
  /\ HasBoundImportDir(pe)
  /\ last' = (IF pe.bound_dirs # <<>>
                THEN <<Event("header", 0, "Bound Import Dirs", "", 0)>>
                ELSE <<Warn(0, "Suspicious", "bound import directory")>>)
  /\ out' = out \o last'
  /\ pc' = "loop"
  /\ UNCHANGED <<pe, fn, pos, num_import_dirs>>

\* for (auto const& forwarder : forwarder_refs), from the i-th on.  A ref is
\* TRUE when dir.GetNameForModuleForwarderRef(forwarder) can read its name;
\* when it cannot, the call throws and nothing in DumpBoundImports catches it.
RECURSIVE ForwarderLoop(_, _, _)
ForwarderLoop(refs, i, dir) ==
  IF i > Len(refs)
    THEN [out |-> <<>>, threw |-> FALSE]
    ELSE IF ~refs[i]
      THEN [out |-> <<Event("forwarder", dir, "partial", "", i)>>,
            threw |-> TRUE]
      ELSE LET rest == ForwarderLoop(refs, i + 1, dir)
           IN  [out |-> <<Event("forwarder", dir, "full", "", i)>> \o rest.out,
                threw |-> rest.threw]

\* The body of the loop over the bound import descriptors, lines 343-367.
DumpBoundDir(d, dir) ==
  IF ~d.name_ok
    THEN [out |-> <<Event("boundfields", dir, "partial", "", 0)>>,
          threw |-> TRUE]
    ELSE LET loop == ForwarderLoop(d.refs, 1, dir)
         IN  [out |-> <<Event("boundfields", dir, "full", "", 0)>>
                        \o (IF d.refs # <<>>
                              THEN <<Event("header", dir, "Forwarder Refs",
                                           "", 0)>>
                              ELSE <<>>)
                        \o loop.out,
              threw |-> loop.threw]

CurBoundDir == pe.bound_dirs[pos + 1]

\* One iteration of the loop over the bound import descriptors; an exception
\* thrown by a name read leaves DumpBoundImports.
BoundDirStep ==
  /\ fn = "DumpBoundImports" /\ pc = "loop" /\ pos < Len(pe.bound_dirs)
  /\ last' = DumpBoundDir(CurBoundDir, pos + 1).out
  /\ out' = out \o last'
  /\ pc' = IF DumpBoundDir(CurBoundDir, pos + 1).threw THEN "threw" ELSE "loop"
  /\ pos' = pos + 1
  /\ UNCHANGED <<pe, fn, num_import_dirs>>

\* The iterator reaches the end of the list and DumpBoundImports returns.
BoundEnd ==
  /\ fn = "DumpBoundImports" /\ pc = "loop" /\ pos = Len(pe.bound_dirs)
  /\ pc' = "done"
  /\ last' = <<>>
  /\ UNCHANGED <<pe, fn, pos, num_import_dirs, out>>

(***************************************************************************)
(* Images                                                                  *)
(***************************************************************************)
Tab(a, b) == [r \in RVAs |-> IF r = 1 THEN a ELSE IF r = 2 THEN b ELSE <<>>]

\* An image whose data directory table has n entries, the bound import entry
\* (when there) holding the address va.
Image(type, n, va, bound, a, b, dirs) ==
  [type |-> type, num_rva_and_sizes |-> n, bound_va |-> va,
   bound_dirs |-> bound, tab |-> Tab(a, b), import_dirs |-> dirs]

BoundDir(name_ok, refs) == [name_ok |-> name_ok, refs |-> refs]

\* No bound import directory, or one of a single descriptor
NoBound == Image("Data", 16, 0, <<>>, <<>>, <<>>, <<>>)
OneBound == Image("Data", 16, 1, <<BoundDir(TRUE, <<>>)>>, <<>>, <<>>, <<>>)

WithImports(base, type, a, b, dirs) ==
  [base EXCEPT !.type = type, !.tab = Tab(a, b), !.import_dirs = dirs]

\* n copies of the descriptor d
Rep(d, n) == [i \in 1 .. n |-> d]

\* A descriptor of an unbound module with a name, an ILT at RVA 1 and an IAT
\* at RVA 2; a descriptor whose IAT lies outside the image
WellFormedDir ==
  [tls_aoi |-> FALSE, OriginalFirstThunk |-> 1, TimeDateStamp |-> 0,
   ForwarderChain |-> 0, name_ok |-> TRUE, FirstThunk |-> 2]
SkippedDir == [WellFormedDir EXCEPT !.FirstThunk = 3]

Fillers == {WellFormedDir, SkippedDir}

\* No descriptor, or one: every descriptor over every pair of small tables
SingleImages ==
  {WithImports(base, t, ta, tb, ds) :
     base \in {NoBound, OneBound}, t \in PeFileTypes,
     ta \in SmallTables, tb \in SmallTables,
     ds \in {<<>>} \cup {<<d>> : d \in Dirs}}

\* Two descriptors: every descriptor before and after a filler
PairTables == {Table(1, <<"name">>), Table(SmallLen, <<"badname", "name">>)}

PairImages ==
  {WithImports(base, t, ta, tb, ds) :
     base \in {NoBound, OneBound}, t \in PeFileTypes,
     ta \in PairTables, tb \in PairTables,
     ds \in UNION {{<<d, f>>, <<f, d>>} : d \in Dirs, f \in Fillers}}

\* One descriptor over thunk tables about as long as the ceiling
LongThunkDirs ==
  {[WellFormedDir EXCEPT !.OriginalFirstThunk = ilt] : ilt \in {0, 1, 3}}

LongThunkImages ==
  {WithImports(NoBound, t, ta, tb, <<d>>) :
     t \in PeFileTypes,
     ta \in LongTables \cup {Table(1, <<"ordinal">>)},
     tb \in LongTables \cup {Table(1, <<"ordinal">>)},
     d \in LongThunkDirs}

\* About as many descriptors as the ceiling, with or without a TLS AOI
\* terminated descriptor after them
LongDirLens == (MaxImportDirs - 1) .. (MaxImportDirs + Over)

LongDirImages ==
  {WithImports(NoBound, "Data", Table(1, <<"ordinal">>), Table(1, <<"name">>),
               Rep(f, n) \o tail) :
     f \in Fillers, n \in LongDirLens, tail \in {<<>>, <<TlsDir>>}}

ImportImages ==
  SingleImages \cup PairImages \cup LongThunkImages \cup LongDirImages

\* Bound import directories of up to MaxBound descriptors of up to MaxBound
\* forwarder refs each
RefLists == UNION {[1 .. n -> BOOLEAN] : n \in 0 .. MaxBound}

BoundDirs == {BoundDir(ok, refs) : ok \in BOOLEAN, refs \in RefLists}

BoundLists == UNION {[1 .. n -> BoundDirs] : n \in 0 .. MaxBound}

BoundImages ==
  {Image("Data", n, va, IF va = 0 THEN <<>> ELSE bound, <<>>, <<>>, <<>>) :
     n \in {BoundImportIndex, 16}, va \in {0, 1}, bound \in BoundLists}

Init ==
  /\ \/ pe \in ImportImages /\ fn = "DumpImports"
     \/ pe \in BoundImages /\ fn = "DumpBoundImports"
  /\ pc = "begin"
  /\ pos = 0
  /\ num_import_dirs = 0
  /\ out = <<>>
  /\ last = <<>>

Next ==
  \/ DumpImportsBegin
  \/ DirTlsAoi
  \/ DirSkipped
  \/ DirCeiling
  \/ DirDumped
  \/ DirsEnd
  \/ BoundAbsent
  \/ BoundBegin
  \/ BoundDirStep
  \/ BoundEnd

Spec == Init /\ [][Next]_vars

(***************************************************************************)
(* Properties                                                              *)
(***************************************************************************)
\* The state right after an iteration of the import descriptor loop over the
\* descriptor Dir, and what the iteration did with it.
Iterated == fn = "DumpImports" /\ pos >= 1 /\ last # <<>>
Dir == pe.import_dirs[pos]
Dumped == Iterated /\ last[1].ev = "fields"

\* The thunks of the table at an RVA, none when the RVA is outside the image
ThunksAt(rva) == IF rva \in MappedRvas THEN pe.tab[rva] ELSE <<>>

IsThunk(e) == e.ev = "thunk"
IsWarn(e) == e.ev = "warn"
IsNewStyleWarn(e) == e.ev = "warn" /\ e.what = "new style bound imports"

\* C1: a descriptor that reaches the IAT check with an empty or unmappable
\* IAT is skipped: the iteration writes exactly one Suspicious warning (IAT
\* empty/invalid) and nothing else, so no name and no thunk, and the loop
\* goes on with the next descriptor.
C1_EmptyIatSkipped ==
  (Iterated /\ ~Dir.tls_aoi /\ ThunksAt(Dir.FirstThunk) = <<>>)
    => /\ Len(last) = 1
       /\ last[1].ev = "warn" /\ last[1].type = "Suspicious"
       /\ last[1].what \in {"IAT empty", "IAT invalid"}
       /\ last[1].dir = pos
       /\ pc = "loop"

\* A descriptor after a skipped one has been dumped.
C1_Witness ==
  /\ Dumped /\ pos = 2
  /\ ThunksAt(pe.import_dirs[1].FirstThunk) = <<>>
  /\ ~pe.import_dirs[1].name_ok
  /\ Len(SelectSeq(out, IsWarn)) = 1

\* The case of C2: a dumped descriptor with TimeDateStamp 0xFFFFFFFF whose
\* ILT is absent or cannot be mapped.
C2_Case ==
  /\ Dumped
  /\ Dir.TimeDateStamp = AllOnes
  /\ Dir.OriginalFirstThunk \notin MappedRvas

\* Every thunk the iteration wrote was read from the IAT, and there is one.
C2_WalkedIat ==
  /\ \A i \in 1 .. Len(last) : IsThunk(last[i]) => last[i].rva = Dir.FirstThunk
  /\ \E i \in 1 .. Len(last) : IsThunk(last[i])

\* C2 as claimed: the new-style-bound warning is recorded exactly once when
\* there is no valid non-empty bound import descriptor list, and not when
\* there is one.
C2_Original ==
  C2_Case
    => /\ (pe.bound_dirs = <<>>) => Len(SelectSeq(last, IsNewStyleWarn)) = 1
       /\ (pe.bound_dirs # <<>>) => Len(SelectSeq(last, IsNewStyleWarn)) = 0
       /\ C2_WalkedIat

\* C2 amended: the new-style-bound warning is recorded exactly once when a
\* valid non-empty bound import descriptor list exists and is not recorded
\* when none exists; the thunks are then walked using the IAT.
C2_NewStyleBoundWarning ==
  C2_Case
    => /\ (pe.bound_dirs # <<>>) => Len(SelectSeq(last, IsNewStyleWarn)) = 1
       /\ (pe.bound_dirs = <<>>) => Len(SelectSeq(last, IsNewStyleWarn)) = 0
       /\ C2_WalkedIat

C2_Witness ==
  /\ C2_Case
  /\ pe.bound_dirs # <<>>
  /\ Dir.OriginalFirstThunk = 3
  /\ Len(SelectSeq(last, IsNewStyleWarn)) = 1

IsIltThunk(e) == e.ev = "thunk" /\ e.type = "first"
IsIatThunk(e) == e.ev = "thunk" /\ e.type = "second"
IsThunkCeiling(e) == e.ev = "warn" /\ e.what = "1000 thunks"
IsDirCeiling(e) == e.ev = "warn" /\ e.what = "1000 import dirs"
IsMismatch(e) == e.ev = "warn" /\ e.what = "IAT/ILT size mismatch"
IsTlsAoi(e) == e.ev = "warn" /\ e.what = "TLS AOI"

\* The descriptors the loop has dumped or skipped: all the iterator yielded,
\* but for the one an iteration left the loop at.
Handled == IF pc = "done" /\ last # <<>> THEN pos - 1 ELSE pos

\* C3 as claimed: in one run at most 1000 descriptors are taken (skipped ones
\* included), and each of the two thunk loops of an iteration reports at most
\* 1000 thunks.
C3_Ceilings ==
  fn = "DumpImports"
    => /\ Handled <= MaxImportDirs
       /\ Iterated => /\ Len(SelectSeq(last, IsIltThunk)) <= MaxImportThunks
                      /\ Len(SelectSeq(last, IsIatThunk)) <= MaxImportThunks

\* The table the first thunk loop of an iteration walks, and its length.
StructRva ==
  IF Dir.OriginalFirstThunk # 0 /\ Dir.OriginalFirstThunk # Dir.FirstThunk
    THEN Dir.OriginalFirstThunk
    ELSE Dir.FirstThunk
StructLen == Len(ThunksAt(StructRva))

\* C4: the first thunk loop over a table of N thunks reports exactly N thunks
\* and no resource guard warning when N <= 1000, exactly 1000 thunks and
\* exactly one Unsupported resource guard warning when N > 1000, and the
\* descriptor loop goes on.
C4_ThunkCeiling ==
  Dumped
    => /\ StructLen <= MaxImportThunks
            => /\ Len(SelectSeq(last, IsIltThunk)) = StructLen
               /\ Len(SelectSeq(last, IsThunkCeiling)) = 0
       /\ StructLen > MaxImportThunks
            => /\ Len(SelectSeq(last, IsIltThunk)) = MaxImportThunks
               /\ Len(SelectSeq(last, IsThunkCeiling)) = 1
               /\ \A i \in 1 .. Len(last) :
                    IsThunkCeiling(last[i]) => last[i].type = "Unsupported"
       /\ pc = "loop"

C4_Witness ==
  /\ Dumped
  /\ StructLen = MaxImportThunks + 1
  /\ Len(SelectSeq(last, IsIltThunk)) = MaxImportThunks
  /\ Len(SelectSeq(last, IsThunkCeiling)) = 1

\* C5 as claimed: when the ILT is used and valid and the IAT holds more
\* thunks than the ILT loop reported, the IAT loop reports as many thunks as
\* the ILT loop did and then records exactly one size mismatch warning; when
\* the IAT is not longer than the ILT there is no such warning.
C5_SizeMismatch ==
  (/\ Dumped
   /\ Dir.OriginalFirstThunk # 0
   /\ Dir.OriginalFirstThunk # Dir.FirstThunk
   /\ Dir.FirstThunk # 0
   /\ Dir.OriginalFirstThunk \in MappedRvas)
    => /\ Len(ThunksAt(Dir.FirstThunk)) > Len(SelectSeq(last, IsIltThunk))
            => /\ Len(SelectSeq(last, IsIatThunk))
                    = Len(SelectSeq(last, IsIltThunk))
               /\ Len(SelectSeq(last, IsMismatch)) = 1
               /\ IsMismatch(last[Len(last)])
               /\ last[Len(last)].type = "Suspicious"
       /\ Len(ThunksAt(Dir.FirstThunk))
            <= Len(ThunksAt(Dir.OriginalFirstThunk))
            => Len(SelectSeq(last, IsMismatch)) = 0

\* C6: an iteration over a TLS AOI terminated descriptor writes the virtual
\* terminator warning only and leaves the loop; at the end of such a run there
\* is exactly one such warning, no 1000-descriptor warning, and nothing else
\* of that descriptor or of a later one.
C6_TlsAoiTerminates ==
  fn = "DumpImports"
    => /\ (Iterated /\ Dir.tls_aoi)
            => last = <<Warn(pos, "Suspicious", "TLS AOI")>>
       /\ (Iterated /\ IsTlsAoi(last[Len(last)])) => pc = "done"
       /\ (pc = "done" /\ last # <<>> /\ IsTlsAoi(last[1]))
            => /\ Len(SelectSeq(out, IsTlsAoi)) = 1
               /\ Len(SelectSeq(out, IsDirCeiling)) = 0
               /\ \A i \in 1 .. Len(out) :
                    /\ out[i].dir <= pos
                    /\ out[i].dir = pos => i = Len(out)

\* The terminator has descriptors after it.
C6_Witness ==
  /\ fn = "DumpImports" /\ pc = "done"
  /\ last # <<>> /\ IsTlsAoi(last[1])
  /\ pos < Len(pe.import_dirs)

IsFields(e) == e.ev = "fields"
IsNameWarn(e) == e.ev = "warn" /\ e.what = "name"
IsThunkNameWarn(e) == e.ev = "warn" /\ e.what = "thunk name"
IsInvalidThunk(e) == e.ev = "thunk" /\ e.what = "Invalid"

\* How a thunk that is not taken as bound is written.
Rendered(kind) ==
  IF kind = "ordinal" THEN "Ordinal"
  ELSE IF kind = "name" THEN "Name" ELSE "Invalid"

\* The image of C7: file-mapped, at most 1000 descriptors, each unbound, with
\* a readable name, no forwarder chain and distinct mapped ILT and IAT, both
\* tables holding the same number K (1 <= K <= 1000) of readable thunks.
C7_K == Len(pe.tab[1])
C7_WellFormed ==
  /\ fn = "DumpImports"
  /\ pe.type = "Data"
  /\ Len(pe.import_dirs) <= MaxImportDirs
  /\ Len(pe.tab[2]) = C7_K
  /\ C7_K >= 1 /\ C7_K <= MaxImportThunks
  /\ \A r \in MappedRvas : \A j \in 1 .. C7_K : pe.tab[r][j] # "badname"
  /\ \A i \in 1 .. Len(pe.import_dirs) :
       /\ ~pe.import_dirs[i].tls_aoi
       /\ pe.import_dirs[i].TimeDateStamp = 0
       /\ pe.import_dirs[i].ForwarderChain \in {0, AllOnes}
       /\ pe.import_dirs[i].name_ok
       /\ pe.import_dirs[i].OriginalFirstThunk \in MappedRvas
       /\ pe.import_dirs[i].FirstThunk \in MappedRvas
       /\ pe.import_dirs[i].OriginalFirstThunk # pe.import_dirs[i].FirstThunk

\* What C7 promises: every iteration reports its module with exactly K
\* classified thunks in the first loop and no warning; at the end the modules
\* reported are the M descriptors in order and no warning was recorded.
C7_Report ==
  /\ Iterated
       => /\ Len(last) >= 3 + C7_K
          /\ last[1] = Event("fields", pos, "", "", 0)
          /\ last[2] = Event("name", pos, "", "", 0)
          /\ \A j \in 1 .. C7_K :
               last[3 + j] =
                 Thunk(pos, "first",
                       Rendered(pe.tab[Dir.OriginalFirstThunk][j]),
                       Dir.OriginalFirstThunk)
          /\ Len(SelectSeq(last, IsIltThunk)) = C7_K
          /\ Len(SelectSeq(last, IsWarn)) = 0
  /\ pc = "done"
       => /\ Len(SelectSeq(out, IsFields)) = Len(pe.import_dirs)
          /\ \A i \in 1 .. Len(pe.import_dirs) :
               SelectSeq(out, IsFields)[i].dir = i
          /\ Len(SelectSeq(out, IsWarn)) = 0

\* C7 as claimed: for every M <= 1000.
C7_Original == C7_WellFormed => C7_Report

\* C7 amended: for 1 <= M <= 1000 (an image without import descriptors gets
\* the empty import directory warning).
C7_RoundTrip == (C7_WellFormed /\ Len(pe.import_dirs) >= 1) => C7_Report

\* Two well-formed descriptors, both reported, the run over.
C7_Witness ==
  /\ C7_WellFormed
  /\ pc = "done"
  /\ Len(pe.import_dirs) = 2
  /\ Len(SelectSeq(out, IsFields)) = 2
  /\ Len(SelectSeq(out, IsIltThunk)) = 2 * C7_K

\* C8 as claimed: a name that cannot be read costs a warning and nothing
\* else.  A descriptor with an unreadable name is dumped with one Suspicious
\* warning and its thunks are walked; a thunk with an unreadable name gets
\* one warning and the thunks after it are walked; DumpBoundImports is never
\* left by an exception and visits every bound import descriptor.
C8_NameFailuresIsolated ==
  /\ (Iterated /\ ~Dir.tls_aoi /\ ThunksAt(Dir.FirstThunk) # <<>>
        /\ num_import_dirs <= MaxImportDirs /\ ~Dir.name_ok)
       => /\ Dumped
          /\ Len(SelectSeq(last, IsNameWarn)) = 1
          /\ \A i \in 1 .. Len(last) :
               IsNameWarn(last[i]) => last[i].type = "Suspicious"
          /\ StructLen <= MaxImportThunks
               => Len(SelectSeq(last, IsIltThunk)) = StructLen
          /\ pc = "loop"
  /\ Dumped
       => /\ Len(SelectSeq(last, IsThunkNameWarn))
               = Len(SelectSeq(last, IsInvalidThunk))
          /\ \A j \in 1 .. StructLen :
               (j <= MaxImportThunks /\ ThunksAt(StructRva)[j] = "badname")
                 => \E i \in 1 .. Len(last) - 1 :
                      /\ last[i] = Thunk(pos, "first", "Invalid", StructRva)
                      /\ IsThunkNameWarn(last[i + 1])
          /\ StructLen <= MaxImportThunks
               => Len(SelectSeq(last, IsIltThunk)) = StructLen
  /\ fn = "DumpBoundImports"
       => /\ pc # "threw"
          /\ (pc = "done" /\ HasBoundImportDir(pe))
               => pos = Len(pe.bound_dirs)

\* C9: the first thunk loop is headed and fed by the ILT exactly when
\* OriginalFirstThunk is non-zero and differs from FirstThunk; otherwise it
\* reads the IAT and the second loop over the IAT is not performed.
C9_UseIlt ==
  Dumped
    => /\ \A i \in 1 .. Len(last) :
            (last[i].ev = "header" /\ last[i].what = "first")
              => (last[i].type = "ILT"
                    <=> (/\ Dir.OriginalFirstThunk # 0
                         /\ Dir.OriginalFirstThunk # Dir.FirstThunk))
       /\ (Dir.OriginalFirstThunk = 0
             \/ Dir.OriginalFirstThunk = Dir.FirstThunk)
            => /\ \A i \in 1 .. Len(last) :
                    IsThunk(last[i])
                      => last[i].type = "first" /\ last[i].rva = Dir.FirstThunk
               /\ \E i \in 1 .. Len(last) : IsIltThunk(last[i])
               /\ \A i \in 1 .. Len(last) :
                    ~(last[i].ev = "header" /\ last[i].what = "second")
       /\ (Dir.OriginalFirstThunk # 0
             /\ Dir.OriginalFirstThunk # Dir.FirstThunk)
            => /\ \A i \in 1 .. Len(last) :
                    IsIltThunk(last[i])
                      => last[i].rva = Dir.OriginalFirstThunk
               /\ \E i \in 1 .. Len(last) :
                    last[i].ev = "header" /\ last[i].what = "second"

\* OriginalFirstThunk equals FirstThunk and the IAT was walked once.
C9_Witness ==
  /\ Dumped
  /\ Dir.OriginalFirstThunk # 0
  /\ Dir.OriginalFirstThunk = Dir.FirstThunk
  /\ Len(SelectSeq(last, IsIltThunk)) = SmallLen
  /\ Len(SelectSeq(last, IsIatThunk)) = 0

\* is_ilt_bound of the descriptor, from its fields and the kind of image.
C10_IsIltBound ==
  LET use_ilt == /\ Dir.OriginalFirstThunk # 0
                 /\ Dir.OriginalFirstThunk # Dir.FirstThunk
  IN  \/ Dir.TimeDateStamp # 0 /\ ~use_ilt
      \/ pe.type = "Image" /\ ~use_ilt

\* C10 as claimed: every thunk of the first loop is written as a bound
\* function address exactly when is_ilt_bound holds.
C10_Original ==
  Dumped
    => \A i \in 1 .. Len(last) :
         IsIltThunk(last[i])
           => (last[i].what = "Function" <=> C10_IsIltBound)

\* C10 amended: every thunk of the first loop is written as not bound,
\* whatever is_ilt_bound is: as an ordinal or a name according to its raw
\* value, never as a function address.
C10_NeverBound ==
  Dumped
    => LET first == SelectSeq(last, IsIltThunk)
           table == ThunksAt(StructRva)
       IN  \A j \in 1 .. Len(table) :
             j <= MaxImportThunks
               => first[j] = Thunk(pos, "first", Rendered(table[j]), StructRva)

\* A bound descriptor without ILT in a process-mapped image, its thunk
\* written as an ordinal.
C10_Witness ==
  /\ Dumped
  /\ C10_IsIltBound
  /\ Dir.TimeDateStamp # 0 /\ pe.type = "Image"
  /\ \E i \in 1 .. Len(last) :
       IsIltThunk(last[i]) /\ last[i].what = "Ordinal"

\* The bound classification C11 gives the thunks of the second loop, from the
\* descriptor's fields, the kind of image and what the first loop reported.
C11_IsIatBound ==
  \/ /\ (Dir.TimeDateStamp # 0 \/ pe.type = "Image")
     /\ Dir.OriginalFirstThunk \in MappedRvas
  \/ Len(SelectSeq(last, IsIltThunk)) > 0

\* C11: the second thunk loop runs only when OriginalFirstThunk is non-zero
\* and differs from FirstThunk and FirstThunk is non-zero; every thunk it
\* reports is read from the IAT and written as a bound function address
\* exactly when ((TimeDateStamp != 0 or the image is process-mapped) and the
\* ILT RVA is valid) or the first loop reported a thunk, whatever its raw
\* value, and otherwise as ordinal or name according to its raw value; with
\* an invalid ILT RVA every IAT thunk is reported as not bound and there is no
\* size mismatch warning.
C11_IatBound ==
  Dumped
    => LET second == SelectSeq(last, IsIatThunk)
           iat == ThunksAt(Dir.FirstThunk)
       IN  /\ second # <<>>
                => /\ Dir.OriginalFirstThunk # 0
                   /\ Dir.OriginalFirstThunk # Dir.FirstThunk
                   /\ Dir.FirstThunk # 0
           /\ Len(second) <= Len(iat)
           /\ \A j \in 1 .. Len(second) :
                second[j] =
                  Thunk(pos, "second",
                        IF C11_IsIatBound
                          THEN "Function" ELSE Rendered(iat[j]),
                        Dir.FirstThunk)
           /\ (/\ Dir.OriginalFirstThunk # 0
               /\ Dir.OriginalFirstThunk # Dir.FirstThunk
               /\ Dir.OriginalFirstThunk \notin MappedRvas)
                => /\ Len(second) = Len(iat)
                   /\ \A j \in 1 .. Len(second) :
                        second[j].what = Rendered(iat[j])
                   /\ Len(SelectSeq(last, IsMismatch)) = 0

\* An IAT thunk with the ordinal bit set, written as a function address in a
\* file-mapped image of an unbound descriptor, because the ILT is not empty.
C11_Witness ==
  /\ Dumped
  /\ pe.type = "Data" /\ Dir.TimeDateStamp = 0
  /\ Dir.FirstThunk \in MappedRvas
  /\ pe.tab[Dir.FirstThunk][1] = "ordinal"
  /\ \E i \in 1 .. Len(last) :
       IsIatThunk(last[i]) /\ last[i].what = "Function"

====
